---- MODULE Spec2Model ----
(***************************************************************************)
(* The two recursive-descent scanners of rusty-engine:                     *)
(*   Html (src/src/parser.rs)      markup  -> one root Node                *)
(*   Css  (src/src/parser/css.rs)  selector list -> sorted selectors       *)
(*                                                                         *)
(* A string is a sequence of bytes, a byte is a one-character TLA+ string; *)
(* the two-byte character U+00E9 is the bytes "C3" "A9".  pos is a byte    *)
(* offset counted from 0 as in the code, so the byte at pos is             *)
(* input[pos + 1].  Every method of the parsers is a frame on an explicit  *)
(* call stack; one action is one step of one method and holds at most one  *)
(* consume_char.  A panic (a failed unwrap or assert!) is status "abort".  *)
(***************************************************************************)
EXTENDS Integers, Sequences, FiniteSets, TLC

VARIABLES
    input,   \* the source string (bytes), never changed
    pos,     \* the cursor, a byte offset
    stack,   \* the call stack, innermost frame last
    ret,     \* the value returned by the call that has just finished
    status,  \* "running", "returned" or "abort"
    result   \* what the entry point returned: <<root>> or the selector list

vars == <<input, pos, stack, ret, status, result>>

(***************************************************************************)
(* Bounds of the checked inputs.                                           *)
(***************************************************************************)
MaxFrags == 4
MaxAttrs == 2
MaxSels == 3

(***************************************************************************)
(* Literal counts of the code.                                             *)
(***************************************************************************)
CommentOpenCount == 4
CommentCloseCount == 3
LastCharAdvance == 1

(***************************************************************************)
(* Bytes and characters.                                                   *)
(***************************************************************************)
CommentOpen == <<"<", "!", "-", "-">>
CommentClose == <<"-", "-", ">">>
CloseTagOpen == <<"<", "/">>
EAcute == <<"C3", "A9">>

IsContinuationByte(b) == b = "A9"

\* The encoded width of the character whose first byte is b.
CharWidth(b) == IF b = "C3" THEN 2 ELSE 1

\* input.get(p..) is Some: p is a character boundary of input.
Sliceable(p) ==
    /\ p <= Len(input)
    /\ (p = Len(input) \/ ~IsContinuationByte(input[p + 1]))

\* pos >= input.len()
Eof(p) == p >= Len(input)

\* next_char does not panic: the slice exists and is not empty.
CanPeek(p) == Sliceable(p) /\ p < Len(input)

\* next_char: the character that starts at p (its bytes).
NextChar(p) == SubSeq(input, p + 1, p + CharWidth(input[p + 1]))

\* starts_with(s), for a p that is Sliceable.
StartsWith(p, s) ==
    /\ p + Len(s) <= Len(input)
    /\ SubSeq(input, p + 1, p + Len(s)) = s

\* A plausible slip: the fallback for the last character is the widest
\* encoding instead of one byte.
ConsumeCharAdvanceWidest(p) ==
    LET w == CharWidth(input[p + 1])
    IN  IF p + w < Len(input) THEN w ELSE 4

\* consume_char: what is added to pos.  char_indices gives the offset of
\* the following character, and (1, ' ') when there is none.
ConsumeCharAdvance(p) ==
    LET w == CharWidth(input[p + 1])
    IN  IF p + w < Len(input) THEN w ELSE LastCharAdvance

AsciiAlnum == {"a", "b", "x", "y", "0"}
Whitespace == {" "}

\* The closures handed to consume_while.
Test(test, c) ==
    CASE test = "is_whitespace" -> Len(c) = 1 /\ c[1] \in Whitespace
      [] test = "tag_name"      -> Len(c) = 1 /\ c[1] \in AsciiAlnum
      [] test = "not_lt"        -> c # <<"<">>
      [] test = "not_dquote"    -> c # <<"\"">>
      [] test = "not_squote"    -> c # <<"'">>
      [] test = "identifier"    -> Len(c) = 1 /\ c[1] \in AsciiAlnum \cup {"-", "_"}
      [] OTHER                  -> FALSE

(***************************************************************************)
(* The Node model (src/src/dom.rs).  An attribute map is a set of          *)
(* <<key, value>> pairs with distinct keys.                                *)
(***************************************************************************)
TextNode(data) ==
    [type |-> "text", text |-> data, tag_name |-> <<>>,
     attributes |-> {}, children |-> <<>>]

ElementNode(name, attrs, children) ==
    [type |-> "element", text |-> <<>>, tag_name |-> name,
     attributes |-> attrs, children |-> children]

\* HashMap::insert: a later value for a key replaces the earlier one.
AttrInsert(attrs, key, value) ==
    {kv \in attrs : kv[1] # key} \cup {<<key, value>>}

\* A plausible slip: the synthetic root is always built.
RootAlwaysWrapped(nodes) ==
    ElementNode(<<"h", "t", "m", "l">>, {}, nodes)

\* The root Html::parse returns for the top-level nodes.
Root(nodes) ==
    IF Len(nodes) = 1
    THEN nodes[1]
    ELSE ElementNode(<<"h", "t", "m", "l">>, {}, nodes)

\* A plausible slip: the closing name is read and never compared.
ClosingTagUnchecked(name, tag) == TRUE

\* assert!(self.parse_tag_name() == tag_name)
ClosingTagMatches(name, tag) == name = tag

\* A plausible slip: parse_text stops at every '<'.
TextContinuesNever(p) == FALSE

\* parse_text goes on after a comment: the text stopped at a comment opener.
TextContinues(p) == StartsWith(p, CommentOpen)

(***************************************************************************)
(* Frames, calls and returns.                                              *)
(***************************************************************************)
\* A frame as it is at the call: p0 is the cursor at entry (kept for the
\* properties), test the closure of a consume_while, the rest the locals.
NewFrame(fn, pc, test) ==
    [fn |-> fn, pc |-> pc, p0 |-> pos, test |-> test,
     data |-> <<>>, list |-> <<>>, attrs |-> {}, n |-> 0]

NoRet == [fn |-> "", p0 |-> 0, str |-> <<>>, list |-> <<>>, attrs |-> {}]

Top == stack[Len(stack)]

At(fn, pc) ==
    /\ status = "running"
    /\ stack # <<>>
    /\ Top.fn = fn
    /\ Top.pc = pc

\* The top frame becomes cont and callee is pushed above it.
Call(cont, callee) ==
    /\ stack' = Append([stack EXCEPT ![Len(stack)] = cont], callee)
    /\ ret' = NoRet

\* The top frame becomes cont, no call.
Goto(cont) ==
    /\ stack' = [stack EXCEPT ![Len(stack)] = cont]
    /\ ret' = NoRet

RetOf(f) == [NoRet EXCEPT !.fn = f.fn, !.p0 = f.p0]

Return(r) ==
    /\ stack' = SubSeq(stack, 1, Len(stack) - 1)
    /\ ret' = r

\* unwrap() on None, or a failed assert! before the cursor moved.
Panic ==
    /\ status' = "abort"
    /\ UNCHANGED <<input, pos, stack, ret, result>>

\* assert!(self.consume_char() == ..) failed: the cursor has moved.
PanicAfterConsume ==
    /\ status' = "abort"
    /\ pos' = pos + ConsumeCharAdvance(pos)
    /\ ret' = NoRet
    /\ UNCHANGED <<input, stack, result>>

Consume == pos' = pos + ConsumeCharAdvance(pos)

(***************************************************************************)
(* consume_while, shared by both parsers (consume_whitespace,              *)
(* parse_tag_name and parse_identifier are calls of it).                   *)
(***************************************************************************)
ConsumeWhileStep ==
    /\ At("consume_while", "loop")
    /\ IF Eof(pos)
       THEN Return([RetOf(Top) EXCEPT !.str = Top.data])
            /\ UNCHANGED <<input, pos, status, result>>
       ELSE IF ~Sliceable(pos)
       THEN Panic
       ELSE IF Test(Top.test, NextChar(pos))
       THEN /\ Consume
            /\ Goto([Top EXCEPT !.data = @ \o NextChar(pos)])
            /\ UNCHANGED <<input, status, result>>
       ELSE Return([RetOf(Top) EXCEPT !.str = Top.data])
            /\ UNCHANGED <<input, pos, status, result>>

(***************************************************************************)
(* Html                                                                    *)
(***************************************************************************)
\* parse_comment: the four characters of the opener.
ParseCommentOpen ==
    /\ At("parse_comment", "open")
    /\ IF ~CanPeek(pos)
       THEN Panic
       ELSE /\ Consume
            /\ Goto([Top EXCEPT !.n = IF @ + 1 = CommentOpenCount THEN 0 ELSE @ + 1,
                                !.pc = IF Top.n + 1 = CommentOpenCount
                                       THEN "scan" ELSE "open"])
            /\ UNCHANGED <<input, status, result>>

\* parse_comment: while !starts_with("-->") { consume_char }
ParseCommentScan ==
    /\ At("parse_comment", "scan")
    /\ IF ~Sliceable(pos)
       THEN Panic
       ELSE IF StartsWith(pos, CommentClose)
       THEN Goto([Top EXCEPT !.pc = "close"])
            /\ UNCHANGED <<input, pos, status, result>>
       ELSE IF ~CanPeek(pos)
       THEN Panic
       ELSE /\ Consume
            /\ Goto(Top)
            /\ UNCHANGED <<input, status, result>>

\* parse_comment: the three characters of the closer.
ParseCommentClose ==
    /\ At("parse_comment", "close")
    /\ IF ~CanPeek(pos)
       THEN Panic
       ELSE /\ Consume
            /\ IF Top.n + 1 = CommentCloseCount
               THEN Return(RetOf(Top))
               ELSE Goto([Top EXCEPT !.n = @ + 1])
            /\ UNCHANGED <<input, status, result>>

\* parse_text: let text = self.consume_while(|c| c != '<')
ParseTextLoop ==
    /\ At("parse_text", "loop")
    /\ Call([Top EXCEPT !.pc = "got"], NewFrame("consume_while", "loop", "not_lt"))
    /\ UNCHANGED <<input, pos, status, result>>

\* parse_text: push the text, then a comment or the end of the text.
ParseTextGot ==
    /\ At("parse_text", "got")
    /\ LET data == Top.data \o ret.str
       IN  IF ~Sliceable(pos)
           THEN Panic
           ELSE IF TextContinues(pos)
           THEN Call([Top EXCEPT !.data = data, !.pc = "loop"],
                     NewFrame("parse_comment", "open", ""))
                /\ UNCHANGED <<input, pos, status, result>>
           ELSE Return([RetOf(Top) EXCEPT !.list = <<TextNode(data)>>])
                /\ UNCHANGED <<input, pos, status, result>>

\* parse_node: the dispatch.
ParseNodeStart ==
    /\ At("parse_node", "start")
    /\ IF ~Sliceable(pos)
       THEN Panic
       ELSE IF StartsWith(pos, CommentOpen)
       THEN Call([Top EXCEPT !.pc = "comment"], NewFrame("parse_comment", "open", ""))
            /\ UNCHANGED <<input, pos, status, result>>
       ELSE IF StartsWith(pos, CloseTagOpen)
       THEN Return(RetOf(Top))
            /\ UNCHANGED <<input, pos, status, result>>
       ELSE IF ~CanPeek(pos)
       THEN Panic
       ELSE IF NextChar(pos) = <<"<">>
       THEN Call([Top EXCEPT !.pc = "wrap"], NewFrame("parse_element", "open", ""))
            /\ UNCHANGED <<input, pos, status, result>>
       ELSE Call([Top EXCEPT !.pc = "wrap"], NewFrame("parse_text", "loop", ""))
            /\ UNCHANGED <<input, pos, status, result>>

\* parse_node: the comment is parsed, return None.
ParseNodeComment ==
    /\ At("parse_node", "comment")
    /\ Return(RetOf(Top))
    /\ UNCHANGED <<input, pos, status, result>>

\* parse_node: Some(node) of parse_element or parse_text.
ParseNodeWrap ==
    /\ At("parse_node", "wrap")
    /\ Return([RetOf(Top) EXCEPT !.list = ret.list])
    /\ UNCHANGED <<input, pos, status, result>>

\* parse_nodes: loop { self.consume_whitespace(); ..
ParseNodesLoop ==
    /\ At("parse_nodes", "loop")
    /\ Call([Top EXCEPT !.pc = "check"],
            NewFrame("consume_while", "loop", "is_whitespace"))
    /\ UNCHANGED <<input, pos, status, result>>

\* parse_nodes: the if / else if before the match.  After the comment the
\* code falls through to the match (pc "node").
ParseNodesCheck ==
    /\ At("parse_nodes", "check")
    /\ IF ~Sliceable(pos)
       THEN Panic
       ELSE IF StartsWith(pos, CommentOpen)
       THEN Call([Top EXCEPT !.pc = "node"], NewFrame("parse_comment", "open", ""))
            /\ UNCHANGED <<input, pos, status, result>>
       ELSE IF Eof(pos) \/ StartsWith(pos, CloseTagOpen)
       THEN Return([RetOf(Top) EXCEPT !.list = Top.list])
            /\ UNCHANGED <<input, pos, status, result>>
       ELSE Call([Top EXCEPT !.pc = "push"], NewFrame("parse_node", "start", ""))
            /\ UNCHANGED <<input, pos, status, result>>

\* parse_nodes: match self.parse_node(), reached after a comment.
ParseNodesNode ==
    /\ At("parse_nodes", "node")
    /\ Call([Top EXCEPT !.pc = "push"], NewFrame("parse_node", "start", ""))
    /\ UNCHANGED <<input, pos, status, result>>

\* parse_nodes: Some(node) => nodes.push(node), None => continue.
ParseNodesPush ==
    /\ At("parse_nodes", "push")
    /\ Goto([Top EXCEPT !.list = @ \o ret.list, !.pc = "loop"])
    /\ UNCHANGED <<input, pos, status, result>>

\* parse_element: assert!(consume_char() == '<'); parse_tag_name()
ParseElementOpen ==
    /\ At("parse_element", "open")
    /\ IF ~CanPeek(pos)
       THEN Panic
       ELSE IF NextChar(pos) # <<"<">>
       THEN PanicAfterConsume
       ELSE /\ Consume
            /\ Call([Top EXCEPT !.pc = "name"],
                    [NewFrame("consume_while", "loop", "tag_name")
                        EXCEPT !.p0 = pos + ConsumeCharAdvance(pos)])
            /\ UNCHANGED <<input, status, result>>

\* parse_element: let attrs = self.parse_attributes()
ParseElementName ==
    /\ At("parse_element", "name")
    /\ Call([Top EXCEPT !.data = ret.str, !.pc = "attrs"],
            NewFrame("parse_attributes", "loop", ""))
    /\ UNCHANGED <<input, pos, status, result>>

\* parse_element: assert!(consume_char() == '>'); parse_nodes()
ParseElementAttrs ==
    /\ At("parse_element", "attrs")
    /\ IF ~CanPeek(pos)
       THEN Panic
       ELSE IF NextChar(pos) # <<">">>
       THEN PanicAfterConsume
       ELSE /\ Consume
            /\ Call([Top EXCEPT !.attrs = ret.attrs, !.pc = "children"],
                    [NewFrame("parse_nodes", "loop", "")
                        EXCEPT !.p0 = pos + ConsumeCharAdvance(pos)])
            /\ UNCHANGED <<input, status, result>>

\* parse_element: assert!(consume_char() == '<')
ParseElementChildren ==
    /\ At("parse_element", "children")
    /\ IF ~CanPeek(pos)
       THEN Panic
       ELSE IF NextChar(pos) # <<"<">>
       THEN PanicAfterConsume
       ELSE /\ Consume
            /\ Goto([Top EXCEPT !.list = ret.list, !.pc = "slash"])
            /\ UNCHANGED <<input, status, result>>

\* parse_element: assert!(consume_char() == '/'); parse_tag_name()
ParseElementSlash ==
    /\ At("parse_element", "slash")
    /\ IF ~CanPeek(pos)
       THEN Panic
       ELSE IF NextChar(pos) # <<"/">>
       THEN PanicAfterConsume
       ELSE /\ Consume
            /\ Call([Top EXCEPT !.pc = "close"],
                    [NewFrame("consume_while", "loop", "tag_name")
                        EXCEPT !.p0 = pos + ConsumeCharAdvance(pos)])
            /\ UNCHANGED <<input, status, result>>

\* parse_element: the closing name, '>' and the Element.
ParseElementClose ==
    /\ At("parse_element", "close")
    /\ IF ~ClosingTagMatches(ret.str, Top.data)
       THEN Panic
       ELSE IF ~CanPeek(pos)
       THEN Panic
       ELSE IF NextChar(pos) # <<">">>
       THEN PanicAfterConsume
       ELSE /\ Consume
            /\ Return([RetOf(Top) EXCEPT
                         !.list = <<ElementNode(Top.data, Top.attrs, Top.list)>>])
            /\ UNCHANGED <<input, status, result>>

\* parse_attributes: loop { self.consume_whitespace(); ..
ParseAttributesLoop ==
    /\ At("parse_attributes", "loop")
    /\ Call([Top EXCEPT !.pc = "check"],
            NewFrame("consume_while", "loop", "is_whitespace"))
    /\ UNCHANGED <<input, pos, status, result>>

\* parse_attributes: if self.next_char() == '>' { break } parse_attr()
ParseAttributesCheck ==
    /\ At("parse_attributes", "check")
    /\ IF ~CanPeek(pos)
       THEN Panic
       ELSE IF NextChar(pos) = <<">">>
       THEN Return([RetOf(Top) EXCEPT !.attrs = Top.attrs])
            /\ UNCHANGED <<input, pos, status, result>>
       ELSE Call([Top EXCEPT !.pc = "insert"], NewFrame("parse_attr", "start", ""))
            /\ UNCHANGED <<input, pos, status, result>>

\* parse_attributes: attributes.insert(key, value)
ParseAttributesInsert ==
    /\ At("parse_attributes", "insert")
    /\ Goto([Top EXCEPT !.attrs = AttrInsert(@, ret.list[1], ret.list[2]),
                        !.pc = "loop"])
    /\ UNCHANGED <<input, pos, status, result>>

\* parse_attr: let key = self.parse_tag_name()
ParseAttrStart ==
    /\ At("parse_attr", "start")
    /\ Call([Top EXCEPT !.pc = "key"], NewFrame("consume_while", "loop", "tag_name"))
    /\ UNCHANGED <<input, pos, status, result>>

\* parse_attr: assert!(consume_char() == '='); parse_attr_value()
ParseAttrKey ==
    /\ At("parse_attr", "key")
    /\ IF ~CanPeek(pos)
       THEN Panic
       ELSE IF NextChar(pos) # <<"=">>
       THEN PanicAfterConsume
       ELSE /\ Consume
            /\ Call([Top EXCEPT !.data = ret.str, !.pc = "value"],
                    [NewFrame("parse_attr_value", "open", "")
                        EXCEPT !.p0 = pos + ConsumeCharAdvance(pos)])
            /\ UNCHANGED <<input, status, result>>

\* parse_attr: (key, value)
ParseAttrValue ==
    /\ At("parse_attr", "value")
    /\ Return([RetOf(Top) EXCEPT !.list = <<Top.data, ret.str>>])
    /\ UNCHANGED <<input, pos, status, result>>

\* parse_attr_value: the opening quote, then consume_while(|c| c != open_quote)
ParseAttrValueOpen ==
    /\ At("parse_attr_value", "open")
    /\ IF ~CanPeek(pos)
       THEN Panic
       ELSE IF NextChar(pos) \notin {<<"\"">>, <<"'">>}
       THEN PanicAfterConsume
       ELSE /\ Consume
            /\ Call([Top EXCEPT !.data = NextChar(pos), !.pc = "close"],
                    [NewFrame("consume_while", "loop",
                              IF NextChar(pos) = <<"\"">>
                              THEN "not_dquote" ELSE "not_squote")
                        EXCEPT !.p0 = pos + ConsumeCharAdvance(pos)])
            /\ UNCHANGED <<input, status, result>>

\* parse_attr_value: assert!(consume_char() == open_quote); value
ParseAttrValueClose ==
    /\ At("parse_attr_value", "close")
    /\ IF ~CanPeek(pos)
       THEN Panic
       ELSE IF NextChar(pos) # Top.data
       THEN PanicAfterConsume
       ELSE /\ Consume
            /\ Return([RetOf(Top) EXCEPT !.str = ret.str])
            /\ UNCHANGED <<input, status, result>>

\* Html::parse: Html { pos: 0, input: source }.parse_nodes()
ParseStart ==
    /\ At("parse", "start")
    /\ Call([Top EXCEPT !.pc = "root"], NewFrame("parse_nodes", "loop", ""))
    /\ UNCHANGED <<input, pos, status, result>>

\* Html::parse: the root.  ret still holds what parse_nodes returned.
ParseRoot ==
    /\ At("parse", "root")
    /\ result' = <<Root(ret.list)>>
    /\ status' = "returned"
    /\ stack' = <<>>
    /\ UNCHANGED <<input, pos, ret>>

(***************************************************************************)
(* The documents that are parsed.                                          *)
(***************************************************************************)
RECURSIVE Concat(_)
Concat(ss) == IF ss = <<>> THEN <<>> ELSE Head(ss) \o Concat(Tail(ss))

SeqsUpTo(S, n) == UNION {[1..k -> S] : k \in 0..n}

Fragments ==
    { <<"<", "a", ">">>,
      <<"<", "/", "a", ">">>,
      <<"<", "/", "b", ">">>,
      <<"<", "!", "-", "-", "x", "-", "-", ">">>,
      <<"<", "!", "-", "-">>,
      <<"x">>,
      <<" ">>,
      EAcute }

FragmentDocs == {Concat(fs) : fs \in SeqsUpTo(Fragments, MaxFrags)}

AttrFragments ==
    { <<" ", "a", "=", "'", "x", "'">>,
      <<" ", "a", "=", "\"", "y", "\"">>,
      <<" ", "b", "=", "'", "\"", "'">>,
      <<"b", "=", "\"", "C3", "A9", "\"">>,
      <<" ", "b", "=", "'", "x", "\"">>,
      <<" ", "b", "=", "x">>,
      <<" ", "b", "=", "'", "x">>,
      <<" ", "b">>,
      <<" ">> }

TagTails ==
    { <<>>, <<">">>, <<">", "x", "<", "/", "a", ">">>, <<"/", ">">> }

TagDocs ==
    {<<"<", "a">> \o Concat(fs) \o t :
        fs \in SeqsUpTo(AttrFragments, MaxAttrs), t \in TagTails}

Documents == FragmentDocs \cup TagDocs

Init ==
    /\ input \in Documents
    /\ pos = 0
    /\ stack = <<[fn |-> "parse", pc |-> "start", p0 |-> 0, test |-> "",
                  data |-> <<>>, list |-> <<>>, attrs |-> {}, n |-> 0]>>
    /\ ret = NoRet
    /\ status = "running"
    /\ result = <<>>

Next ==
    \/ ParseStart
    \/ ParseRoot
    \/ ParseNodesLoop
    \/ ParseNodesCheck
    \/ ParseNodesNode
    \/ ParseNodesPush
    \/ ParseNodeStart
    \/ ParseNodeComment
    \/ ParseNodeWrap
    \/ ParseTextLoop
    \/ ParseTextGot
    \/ ParseElementOpen
    \/ ParseElementName
    \/ ParseElementAttrs
    \/ ParseElementChildren
    \/ ParseElementSlash
    \/ ParseElementClose
    \/ ParseAttributesLoop
    \/ ParseAttributesCheck
    \/ ParseAttributesInsert
    \/ ParseAttrStart
    \/ ParseAttrKey
    \/ ParseAttrValue
    \/ ParseAttrValueOpen
    \/ ParseAttrValueClose
    \/ ParseCommentOpen
    \/ ParseCommentScan
    \/ ParseCommentClose
    \/ ConsumeWhileStep

Spec == Init /\ [][Next]_vars

(***************************************************************************)
(* Css                                                                     *)
(***************************************************************************)
\* SimpleSelector::new().  An Option is a sequence of length 0 or 1.
SimpleSelectorNew == [tag_name |-> <<>>, id |-> <<>>, class |-> <<>>]

\* Selector::specificity
Specificity(sel) == <<Len(sel.id), Len(sel.class), Len(sel.tag_name)>>

\* Ord::cmp on (usize, usize, usize): lexicographic.
TupleCmp(x, y) ==
    IF x[1] # y[1] THEN (IF x[1] < y[1] THEN "Less" ELSE "Greater")
    ELSE IF x[2] # y[2] THEN (IF x[2] < y[2] THEN "Less" ELSE "Greater")
    ELSE IF x[3] # y[3] THEN (IF x[3] < y[3] THEN "Less" ELSE "Greater")
    ELSE "Equal"

\* A plausible slip: the operands of cmp are the other way round.
SortCompareAscending(a, b) == TupleCmp(Specificity(a), Specificity(b))

\* The closure of sort_by: |a, b| b.specificity().cmp(&a.specificity())
SortCompare(a, b) == TupleCmp(Specificity(b), Specificity(a))

\* x put into the sorted s behind every element that is not Greater than it.
RECURSIVE InsertStable(_, _)
InsertStable(s, x) ==
    IF s = <<>> THEN <<x>>
    ELSE IF SortCompare(Head(s), x) = "Greater"
    THEN <<x>> \o s
    ELSE <<Head(s)>> \o InsertStable(Tail(s), x)

\* Vec::sort_by: a stable sort by the closure.
RECURSIVE SortBy(_)
SortBy(s) ==
    IF s = <<>> THEN <<>>
    ELSE InsertStable(SortBy(SubSeq(s, 1, Len(s) - 1)), s[Len(s)])

\* A plausible slip: every character but ',' ends the list.
SeparatorArmLenient(c) ==
    IF c = <<",">> THEN "next" ELSE "end"

\* The arms of the match in parse_selectors.
SeparatorArm(c) ==
    CASE c = <<",">> -> "next"
      [] c = <<"{">> -> "end"
      [] OTHER       -> "panic"

\* parse_simple_selector: one turn of while !self.eof() { match next_char() }
ParseSimpleSelectorLoop ==
    /\ At("parse_simple_selector", "loop")
    /\ IF Eof(pos)
       THEN Return([RetOf(Top) EXCEPT !.list = Top.list])
            /\ UNCHANGED <<input, pos, status, result>>
       ELSE IF ~Sliceable(pos)
       THEN Panic
       ELSE IF NextChar(pos) \in {<<"#">>, <<".">>}
       THEN /\ Consume
            /\ Call([Top EXCEPT !.pc = IF NextChar(pos) = <<"#">> THEN "id" ELSE "class"],
                    [NewFrame("consume_while", "loop", "identifier")
                        EXCEPT !.p0 = pos + ConsumeCharAdvance(pos)])
            /\ UNCHANGED <<input, status, result>>
       ELSE IF NextChar(pos) = <<"*">>
       THEN /\ Consume
            /\ Goto(Top)
            /\ UNCHANGED <<input, status, result>>
       ELSE IF Test("identifier", NextChar(pos))
       THEN Call([Top EXCEPT !.pc = "tag"],
                 NewFrame("consume_while", "loop", "identifier"))
            /\ UNCHANGED <<input, pos, status, result>>
       ELSE Return([RetOf(Top) EXCEPT !.list = Top.list])
            /\ UNCHANGED <<input, pos, status, result>>

\* selector.id = Some(self.parse_identifier())
ParseSimpleSelectorId ==
    /\ At("parse_simple_selector", "id")
    /\ Goto([Top EXCEPT !.list[1].id = <<ret.str>>, !.pc = "loop"])
    /\ UNCHANGED <<input, pos, status, result>>

\* selector.class.push(self.parse_identifier())
ParseSimpleSelectorClass ==
    /\ At("parse_simple_selector", "class")
    /\ Goto([Top EXCEPT !.list[1].class = Append(@, ret.str), !.pc = "loop"])
    /\ UNCHANGED <<input, pos, status, result>>

\* selector.tag_name = Some(self.parse_identifier())
ParseSimpleSelectorTag ==
    /\ At("parse_simple_selector", "tag")
    /\ Goto([Top EXCEPT !.list[1].tag_name = <<ret.str>>, !.pc = "loop"])
    /\ UNCHANGED <<input, pos, status, result>>

\* parse_selectors: loop { .. self.parse_simple_selector()
ParseSelectorsLoop ==
    /\ At("parse_selectors", "loop")
    /\ Call([Top EXCEPT !.pc = "push"],
            [NewFrame("parse_simple_selector", "loop", "")
                EXCEPT !.list = <<SimpleSelectorNew>>])
    /\ UNCHANGED <<input, pos, status, result>>

\* parse_selectors: selectors.push(Selector::Simple(..)); consume_whitespace()
ParseSelectorsPush ==
    /\ At("parse_selectors", "push")
    /\ Call([Top EXCEPT !.list = @ \o ret.list, !.pc = "sep"],
            NewFrame("consume_while", "loop", "is_whitespace"))
    /\ UNCHANGED <<input, pos, status, result>>

\* parse_selectors: match self.next_char(); at '{' the sort and the return.
ParseSelectorsSep ==
    /\ At("parse_selectors", "sep")
    /\ IF ~CanPeek(pos)
       THEN Panic
       ELSE IF SeparatorArm(NextChar(pos)) = "next"
       THEN /\ Consume
            /\ Call([Top EXCEPT !.pc = "loop"],
                    [NewFrame("consume_while", "loop", "is_whitespace")
                        EXCEPT !.p0 = pos + ConsumeCharAdvance(pos)])
            /\ UNCHANGED <<input, status, result>>
       ELSE IF SeparatorArm(NextChar(pos)) = "end"
       THEN /\ Return([RetOf(Top) EXCEPT !.list = SortBy(Top.list)])
            /\ result' = SortBy(Top.list)
            /\ status' = "returned"
            /\ UNCHANGED <<input, pos>>
       ELSE Panic

(***************************************************************************)
(* The selector lists that are parsed: up to MaxSels selectors joined by   *)
(* one separator and followed by one terminator.                           *)
(***************************************************************************)
RECURSIVE Join(_, _)
Join(ss, sep) ==
    IF Len(ss) <= 1 THEN Concat(ss)
    ELSE Head(ss) \o sep \o Join(Tail(ss), sep)

SelectorTexts ==
    { <<"#", "a">>, <<".", "a">>, <<".", "b">>, <<"a">>, <<"*">>,
      <<"b", "#", "a", "_">>, <<"b", ".", "a", ".", "b">> }

Separators == { <<",">>, <<" ", ",", " ">>, <<" ">> }

Terminators == { <<"{">>, <<" ", "{">>, <<>>, <<";">>, <<",", "C3", "A9">> }

SelectorLists ==
    {Join(ss, sep) \o t :
        ss \in SeqsUpTo(SelectorTexts, MaxSels), sep \in Separators, t \in Terminators}

\* Css { pos: 0, input }.parse_selectors()
CssInit ==
    /\ input \in SelectorLists
    /\ pos = 0
    /\ stack = <<[fn |-> "parse_selectors", pc |-> "loop", p0 |-> 0, test |-> "",
                  data |-> <<>>, list |-> <<>>, attrs |-> {}, n |-> 0]>>
    /\ ret = NoRet
    /\ status = "running"
    /\ result = <<>>

CssNext ==
    \/ ParseSelectorsLoop
    \/ ParseSelectorsPush
    \/ ParseSelectorsSep
    \/ ParseSimpleSelectorLoop
    \/ ParseSimpleSelectorId
    \/ ParseSimpleSelectorClass
    \/ ParseSimpleSelectorTag
    \/ ConsumeWhileStep

CssSpec == CssInit /\ [][CssNext]_vars

\* Both parsers.
AllSpec == (Init \/ CssInit) /\ [][Next \/ CssNext]_vars

\* A parser that can take a step takes it: the code runs to its end.
FairSpec == Spec /\ WF_vars(Next)

FairCssSpec == CssSpec /\ WF_vars(CssNext)

(***************************************************************************)
(* Reference definitions used by the properties.                           *)
(***************************************************************************)
HtmlName == <<"h", "t", "m", "l">>

\* The first index >= i at which "-->" starts in s, 0 when there is none.
RECURSIVE IndexOfClose(_, _)
IndexOfClose(s, i) ==
    IF i + 2 > Len(s) THEN 0
    ELSE IF SubSeq(s, i, i + 2) = CommentClose THEN i
    ELSE IndexOfClose(s, i + 1)

IsCommentAt(s) ==
    /\ Len(s) >= 4
    /\ SubSeq(s, 1, 4) = CommentOpen
    /\ IndexOfClose(s, 5) # 0

AfterComment(s) == SubSeq(s, IndexOfClose(s, 5) + 3, Len(s))

\* s with every terminated comment taken out and every other byte kept.
RECURSIVE StripComments(_)
StripComments(s) ==
    IF s = <<>> THEN <<>>
    ELSE IF IsCommentAt(s) THEN StripComments(AfterComment(s))
    ELSE <<Head(s)>> \o StripComments(Tail(s))

\* s is made of whitespace and terminated comments only.
RECURSIVE OnlyBlankAndComments(_)
OnlyBlankAndComments(s) ==
    IF s = <<>> THEN TRUE
    ELSE IF Head(s) \in Whitespace THEN OnlyBlankAndComments(Tail(s))
    ELSE IF IsCommentAt(s) THEN OnlyBlankAndComments(AfterComment(s))
    ELSE FALSE

NoAdjacentText(nodes) ==
    \A i \in 1..(Len(nodes) - 1) :
        ~(nodes[i].type = "text" /\ nodes[i + 1].type = "text")

\* x >= y for specificities, id first, then class, then tag.
SpecificityGE(x, y) ==
    \/ x[1] > y[1]
    \/ x[1] = y[1] /\ x[2] > y[2]
    \/ x[1] = y[1] /\ x[2] = y[2] /\ x[3] >= y[3]

SelectorsOfSpecificity(list, sp) ==
    LET Has(sel) == <<Len(sel.id), Len(sel.class), Len(sel.tag_name)>> = sp
    IN  SelectSeq(list, Has)

SpecificityOf(sel) == <<Len(sel.id), Len(sel.class), Len(sel.tag_name)>>

\* post is pre sorted by non-increasing specificity, equal ones in pre's order.
StableDescending(pre, post) ==
    /\ Len(post) = Len(pre)
    /\ \A i \in 1..Len(post) : \A j \in i..Len(post) :
          SpecificityGE(SpecificityOf(post[i]), SpecificityOf(post[j]))
    /\ \A k \in 1..Len(pre) :
          SelectorsOfSpecificity(post, SpecificityOf(pre[k]))
            = SelectorsOfSpecificity(pre, SpecificityOf(pre[k]))

(***************************************************************************)
(* Properties.                                                             *)
(***************************************************************************)

\* C1: when Html::parse returns, exactly one top-level node is returned as it
\* is (Text or Element); no node, or two or more, are returned as the
\* children, in order, of an "html" element without attributes.
SingleRoot ==
    (status = "returned" /\ ret.fn = "parse_nodes") =>
        /\ Len(result) = 1
        /\ (Len(ret.list) = 1 => result[1] = ret.list[1])
        /\ (Len(ret.list) # 1 =>
               /\ result[1].type = "element"
               /\ result[1].tag_name = HtmlName
               /\ result[1].attributes = {}
               /\ result[1].children = ret.list)

SingleRootWitness ==
    /\ status = "returned"
    /\ ret.fn = "parse_nodes"
    /\ Len(ret.list) = 2
    /\ ret.list[1].type = "text"
    /\ ret.list[2].type = "element"
    /\ result[1].tag_name = HtmlName

SingleRootUnwrappedWitness ==
    /\ status = "returned"
    /\ ret.fn = "parse_nodes"
    /\ Len(ret.list) = 1
    /\ result[1].type = "text"

\* C2: the list parse_selectors returns is the selectors in input order
\* sorted by non-increasing specificity (id, class, tag counts compared in
\* that order), selectors of equal specificity keeping their input order.
SortedBySpecificity ==
    [][(At("parse_selectors", "sep") /\ status' = "returned")
          => StableDescending(Top.list, result')]_vars

SortedBySpecificityWitness ==
    /\ status = "returned"
    /\ input = <<"a", ",", ".", "a", ",", ".", "b", "{">>
    /\ Len(result) = 3
    /\ result[1].class = << <<"a">> >>
    /\ result[2].class = << <<"b">> >>
    /\ result[3].tag_name = << <<"a">> >>

\* C3: the Text node parse_text returns holds the text from where it started
\* to where it stopped with the terminated comments taken out, it stops only
\* at the end of input or at a '<' that opens no comment, and no sequence of
\* nodes built by parse_nodes has two Text nodes next to each other.
TextMergesComments ==
    /\ ret.fn = "parse_text" =>
          /\ ret.list = <<TextNode(StripComments(SubSeq(input, ret.p0 + 1, pos)))>>
          /\ \/ Eof(pos)
             \/ input[pos + 1] = "<" /\ ~StartsWith(pos, CommentOpen)
    /\ ret.fn = "parse_nodes" => NoAdjacentText(ret.list)
    /\ \A i \in DOMAIN stack :
          stack[i].fn = "parse_nodes" => NoAdjacentText(stack[i].list)

TextMergesCommentsWitness ==
    /\ ret.fn = "parse_text"
    /\ SubSeq(input, ret.p0 + 1, pos)
         = <<"x", "<", "!", "-", "-", "x", "-", "-", ">", "x">>
    /\ ret.list[1].text = <<"x", "x">>

\* C4: content made of whitespace and terminated comments only never aborts
\* the parse and gives parse_nodes an empty sequence of nodes, at top level
\* and inside an element.
CommentsBetweenNodesDiscarded ==
    /\ status = "abort" => ~OnlyBlankAndComments(input)
    /\ (ret.fn = "parse_nodes" /\ OnlyBlankAndComments(SubSeq(input, ret.p0 + 1, pos)))
          => ret.list = <<>>

\* C5: consume_char moves pos by the encoded width of the character it
\* returns, the last one of the input included, so pos is always on a
\* character boundary of the input.
CursorOnCharBoundary == Sliceable(pos)

\* C6: an Element returned by parse_element is closed in the input by "</",
\* its own tag name and ">"; a closing name that differs from the opening one
\* aborts the parse, an aborted parse takes no further step and returns no
\* node.
ClosingTagRequired ==
    /\ [](ret.fn = "parse_element" =>
            LET closing == CloseTagOpen \o ret.list[1].tag_name \o <<">">>
            IN  /\ pos - Len(closing) >= ret.p0
                /\ SubSeq(input, pos - Len(closing) + 1, pos) = closing)
    /\ [][(At("parse_element", "close") /\ ret.str # Top.data)
            => (status' = "abort" /\ result' = <<>>)]_vars
    /\ [][status # "abort"]_vars
    /\ [](status = "abort" => result = <<>>)

ClosingTagRequiredWitness ==
    /\ ret.fn = "parse_element"
    /\ ret.p0 > 0
    /\ Len(stack) > 2
    /\ ret.list[1].tag_name = <<"a">>

ClosingTagMismatchWitness ==
    /\ status = "abort"
    /\ stack # <<>>
    /\ Top.fn = "parse_element"
    /\ Top.pc = "close"
    /\ ret.str = <<"b">>
    /\ Top.data = <<"a">>

\* C7: parse_selectors returns only with the cursor on a '{' it has not
\* consumed and with at least one selector; after a simple selector and
\* whitespace a ',' goes on with the list, any other character and the end
\* of input abort the call with no list returned.
SelectorListEndsAtBrace ==
    /\ [](status = "returned" =>
            /\ pos < Len(input)
            /\ input[pos + 1] = "{"
            /\ Len(result) >= 1)
    /\ [][At("parse_selectors", "sep") =>
            IF pos < Len(input) /\ input[pos + 1] = ","
            THEN status' = "running" /\ pos' = pos + 1
            ELSE IF pos < Len(input) /\ input[pos + 1] = "{"
            THEN status' = "returned" /\ pos' = pos
            ELSE status' = "abort" /\ result' = <<>>]_vars
    /\ [][status # "abort"]_vars

SelectorListEndsAtBraceWitness ==
    /\ status = "returned"
    /\ Len(result) = 2
    /\ pos = Len(input) - 1
    /\ input[pos] = " "

\* C8: when Html::parse returns a node the cursor is at the end of the
\* input: nothing of the document is left unparsed.
InputFullyConsumed ==
    status = "returned" => pos = Len(input)

\* C9 (first part): every parse ends, by returning or by aborting.
Termination == <>(status \in {"returned", "abort"})

\* C9: every parse ends, and an abort on an unterminated comment, tag or
\* quoted value happens with the cursor at the end of the input.
UnterminatedAbort ==
    /\ status = "abort"
    /\ stack # <<>>
    /\ \/ Top.fn = "parse_comment"
       \/ Top.fn = "parse_attributes"
       \/ Top.fn = "parse_attr_value" /\ Top.pc = "close"
       \/ Top.fn = "consume_while" /\ Top.test \in {"not_dquote", "not_squote"}

UnterminatedRunsToEnd == UnterminatedAbort => pos = Len(input)

TerminatesAtEndOfInput == Termination /\ []UnterminatedRunsToEnd

\* C10: 0 <= pos <= length of the input in every state, no step moves pos
\* backward, the steps that only peek (next_char, starts_with, eof) leave it
\* where it is, and parse_node on "</" returns None without moving it.
CursorInBounds ==
    /\ [](0 <= pos /\ pos <= Len(input))
    /\ [][pos' >= pos]_vars
    /\ [][(\/ At("parse_nodes", "check")
           \/ At("parse_text", "got")
           \/ At("parse_node", "start")
           \/ At("parse_attributes", "check")) => pos' = pos]_vars
    /\ [][(At("parse_node", "start") /\ Sliceable(pos) /\ StartsWith(pos, CloseTagOpen))
            => (pos' = pos /\ ret'.fn = "parse_node" /\ ret'.list = <<>>)]_vars

CursorInBoundsWitness ==
    /\ ret.fn = "parse_node"
    /\ ret.list = <<>>
    /\ StartsWith(pos, CloseTagOpen)
    /\ pos = ret.p0
    /\ pos > 0

====
